---------------------------- MODULE Spec2Model ----------------------------
(***************************************************************************)
(* Tracked-changes diff/merge engine of writeedit.                         *)
(*                                                                         *)
(* Texts are sequences of one-character strings.  Markup is kept as a      *)
(* sequence of cells: a plain character, or a change group                 *)
(* <span class="change-group"> holding <del>/<ins>/text children and,      *)
(* when attached, its <div class="change-action"> control pair.            *)
(*                                                                         *)
(* Spec        : a session of the review surface (edit-tracked/page.tsx    *)
(*               and its worker-based variant): documents are loaded,      *)
(*               changes accepted and rejected, progress saved.            *)
(* SpecEdit    : a session on one document that is also edited by typing,  *)
(*               pasting and deleting.                                     *)
(* SpecDiff    : the server-side word diff generateTrackedChanges, one     *)
(*               outer-loop iteration per step, followed by a review of    *)
(*               the markup it produced.                                   *)
(* FairSpecDiff: SpecDiff with weak fairness on the loop (a running        *)
(*               JavaScript function keeps executing).                     *)
(***************************************************************************)
EXTENDS Integers, Sequences, FiniteSets, TLC

\* ------------------------------------------------------------------ bounds
MaxTextLen == 3

Chars == {"a", "b", " "}

Texts == UNION {[1..n -> Chars] : n \in 0..MaxTextLen}

\* ------------------------------------------------------------ text helpers
IsWs(c) == c = " "

RECURSIVE Flatten(_)
Flatten(ss) == IF ss = <<>> THEN <<>> ELSE Head(ss) \o Flatten(Tail(ss))

RECURSIVE Join(_, _)
Join(ss, sep) ==
  IF ss = <<>> THEN <<>>
  ELSE IF Len(ss) = 1 THEN ss[1]
  ELSE ss[1] \o sep \o Join(Tail(ss), sep)

\* String.prototype.trim
Trim(t) ==
  LET keep == {n \in 1..Len(t) : ~IsWs(t[n])}
  IN IF keep = {} THEN <<>>
     ELSE LET lo == CHOOSE n \in keep : \A m \in keep : n <= m
              hi == CHOOSE n \in keep : \A m \in keep : n >= m
          IN SubSeq(t, lo, hi)

\* first index >= k holding a non-whitespace character, Len(t)+1 if none
SkipWs(t, k) ==
  LET c == {n \in k..Len(t) : ~IsWs(t[n])}
  IN IF c = {} THEN Len(t) + 1 ELSE CHOOSE n \in c : \A m \in c : n <= m

\* String.prototype.split(/\s+/): the pieces between maximal whitespace runs
RECURSIVE SplitFrom(_, _, _)
SplitFrom(t, k, cur) ==
  IF k > Len(t) THEN <<cur>>
  ELSE IF IsWs(t[k]) THEN <<cur>> \o SplitFrom(t, SkipWs(t, k), <<>>)
  ELSE SplitFrom(t, k + 1, Append(cur, t[k]))

SplitWs(t) == SplitFrom(t, 1, <<>>)

\* Array.prototype.filter(w => w)
FilterNonEmpty(ws) == SelectSeq(ws, LAMBDA w : w # <<>>)

\* escapeHtml of the edit API: & < > become entities, one markup token each
EscapeChar(c) ==
  CASE c = "&" -> "&amp;"
    [] c = "<" -> "&lt;"
    [] c = ">" -> "&gt;"
    [] OTHER -> c

EscapeHtml(t) == [n \in 1..Len(t) |-> EscapeChar(t[n])]

\* what the HTML parser makes of one token of text content
DecodeToken(t) ==
  CASE t = "&amp;" -> "&"
    [] t = "&lt;" -> "<"
    [] t = "&gt;" -> ">"
    [] OTHER -> t

DecodeText(h) == [n \in 1..Len(h) |-> DecodeToken(h[n])]

\* ------------------------------------------------------------------- cells
CharCell(c) == [k |-> "c", ch |-> c, kids |-> <<>>, act |-> FALSE]

GroupCell(kids, act) == [k |-> "g", ch |-> "", kids |-> kids, act |-> act]

Kid(tag, s) == [tag |-> tag, s |-> s]

TextCells(t) == [n \in 1..Len(t) |-> CharCell(t[n])]

IsGroup(c) == c.k = "g"

GroupIdx(cells) == {n \in 1..Len(cells) : IsGroup(cells[n])}

\* concatenated text of the children of a group carrying one of the tags
KidsText(kids, tags) ==
  Flatten([n \in 1..Len(kids) |-> IF kids[n].tag \in tags THEN kids[n].s ELSE <<>>])


TextContentOfGroup(g) == KidsText(g.kids, {"del", "ins", "t"})

\* the text of the two buttons inside a <div class="change-action">
ActionText == <<"[ok][no]">>

ActionCell == [k |-> "a", ch |-> "", kids |-> <<>>, act |-> FALSE]

\* <div class="loading-spinner">Loading document...</div>
SpinnerCell == [k |-> "s", ch |-> "", kids |-> <<>>, act |-> FALSE]

\* the two buttons of a control pair outside any change-action div
ButtonsCell == [k |-> "b", ch |-> "", kids |-> <<>>, act |-> FALSE]

\* Node.textContent of the surface: every text node in document order
TextContent(cells) ==
  Flatten([n \in 1..Len(cells) |->
    CASE cells[n].k = "c" -> <<cells[n].ch>>
      [] cells[n].k = "a" -> ActionText
      [] cells[n].k = "b" -> ActionText
      [] cells[n].k = "s" -> <<"Loading document...">>
      [] OTHER -> TextContentOfGroup(cells[n])
                    \o (IF cells[n].act THEN ActionText ELSE <<>>)])

\* ----------------------------------------------- generateTrackedChanges
VARIABLES original, edited, variant, words1, words2, i, j, html, changes,
          pc, iter

\* the POST handler of the edit API (SpecApi)
VARIABLES
  body,              \* the request: input, model, chunkIndex, and the key
  modelOrder,        \* the fallback order built from the request
  attempted,         \* the models called so far, in order
  variationsResult,  \* <<>> for null, else <<primary>>
  usedModel,         \* "" for null
  response,          \* <<>> until the handler returns, then <<response>>
  apiPc              \* "idle", "validate", "models", "respond", "done"

\* the job-queue variant of the edit API (SpecJobs)
VARIABLES
  jobQueue,          \* the module-level array of jobs
  jobRuns,           \* per job, the processJob call that works on it
  jobResponse        \* <<>>, else the last response of POST or GET

jobVars == <<jobQueue, jobRuns, jobResponse>>

apiVars == <<body, modelOrder, attempted, variationsResult, usedModel,
             response, apiPc, jobVars>>

\* the server side: the word diff and the handler that calls it
diffVars == <<original, edited, variant, words1, words2, i, j, html,
              changes, pc, iter, apiVars>>

maxLookahead == 10

Variants == {"route", "part014"}

\* route.ts:232-233 drops empty words, part_014:1040-1041 keeps them
Words(v, t) == IF v = "route" THEN FilterNonEmpty(SplitWs(t)) ELSE SplitWs(t)

WordItem(w) == [k |-> "w", s |-> EscapeHtml(w), del |-> <<>>, ins |-> <<>>]

GroupItem(d, n) == [k |-> "g", s |-> <<>>, del |-> d, ins |-> n]

\* words.slice(from, to).map(escapeHtml).join(' ') with 0-based indices
SliceJoin(ws, from, to) ==
  Join([n \in 1..(to - from) |-> EscapeHtml(ws[from + n])], <<" ">>)

\* route.ts:250-257, the bounded look-ahead for the next match
RECURSIVE RouteScan(_, _, _, _, _)
RouteScan(w1, w2, a, b, lookahead) ==
  IF a < Len(w1) /\ b < Len(w2) /\ w1[a + 1] # w2[b + 1]
     /\ lookahead < maxLookahead
  THEN RouteScan(w1, w2, a + 1, b + 1, lookahead + 1)
  ELSE <<a, b>>

\* route.ts:260-262, "step back to process differences"
RouteStepBack(w1, w2, ab) ==
  IF ab[1] < Len(w1) /\ ab[2] < Len(w2) /\ w1[ab[1] + 1] = w2[ab[2] + 1]
  THEN <<ab[1] - 1, ab[2] - 1>>
  ELSE ab

\* part_014:1053-1060, scan to the next positional match or to both ends
RECURSIVE Part014Scan(_, _, _, _)
Part014Scan(w1, w2, a, b) ==
  IF \/ (a < Len(w1) /\ b < Len(w2) /\ w1[a + 1] # w2[b + 1])
     \/ (a < Len(w1) /\ b >= Len(w2))
     \/ (a >= Len(w1) /\ b < Len(w2))
  THEN Part014Scan(w1, w2, IF a < Len(w1) THEN a + 1 ELSE a,
                           IF b < Len(w2) THEN b + 1 ELSE b)
  ELSE <<a, b>>

ScanEnd(v, w1, w2, a, b) ==
  IF v = "route" THEN RouteStepBack(w1, w2, RouteScan(w1, w2, a, b, 0))
  ELSE Part014Scan(w1, w2, a, b)

\* one iteration of the outer while loop: the new i, j and what is pushed
Iteration(v, w1, w2, a, b) ==
  IF a < Len(w1) /\ b < Len(w2) /\ w1[a + 1] = w2[b + 1]
  THEN [i |-> a + 1, j |-> b + 1, push |-> <<WordItem(w1[a + 1])>>, changes |-> 0]
  ELSE LET e == ScanEnd(v, w1, w2, a, b)
           deleted == SliceJoin(w1, a, e[1])
           inserted == SliceJoin(w2, b, e[2])
       IN IF deleted # <<>> \/ inserted # <<>>
          THEN [i |-> e[1], j |-> e[2],
                push |-> <<GroupItem(deleted, inserted)>>, changes |-> 1]
          ELSE [i |-> e[1], j |-> e[2], push |-> <<>>, changes |-> 0]

\* the cells the browser builds from one pushed string of the html array
ItemCells(it) ==
  IF it.k = "w" THEN TextCells(DecodeText(it.s))
  ELSE <<GroupCell((IF it.del # <<>> THEN <<Kid("del", DecodeText(it.del))>> ELSE <<>>)
                   \o (IF it.ins # <<>> THEN <<Kid("ins", DecodeText(it.ins))>> ELSE <<>>),
                   FALSE)>>

\* html.join(' ') inside the wrapper div, parsed
ParseItems(items) ==
  Join([n \in 1..Len(items) |-> ItemCells(items[n])], <<CharCell(" ")>>)

\* what the HTML parser makes of a run of markup tokens in text position:
\* an entity is decoded, and a raw < before a letter opens a tag, which
\* takes everything up to the next > (or to the end) out of the text
Letters == {"a", "b"}

RECURSIVE AfterTag(_)
AfterTag(ts) ==
  IF ts = <<>> THEN <<>>
  ELSE IF ts[1] = ">" THEN Tail(ts)
  ELSE AfterTag(Tail(ts))

RECURSIVE ParseMarkupText(_)
ParseMarkupText(ts) ==
  IF ts = <<>> THEN <<>>
  ELSE IF ts[1] = "<" /\ Len(ts) > 1 /\ ts[2] \in Letters
       THEN ParseMarkupText(AfterTag(Tail(ts)))
  ELSE <<DecodeToken(ts[1])>> \o ParseMarkupText(Tail(ts))

\* ------------------------------------------- review surface, page.tsx
\* attachAcceptRejectHandlers: every .change-action is removed, then every
\* .change-group gets one appended
AttachAcceptRejectHandlers(cells) ==
  LET kept == SelectSeq(cells, LAMBDA c : c.k # "a")
  IN [n \in 1..Len(kept) |->
        IF IsGroup(kept[n]) THEN [kept[n] EXCEPT !.act = TRUE] ELSE kept[n]]

\* page.tsx updateCleanFromTracked: the clone loses every .change-action and
\* every .change-group element, then every <del>; an <ins> is unwrapped
PageUpdateCleanFromTracked(cells) ==
  TextContent(SelectSeq(cells, LAMBDA c : c.k = "c"))

\* page.tsx applyChange up to its call of attachAcceptRejectHandlers: the
\* kept side is unwrapped, the other side removed, and the children of the
\* group (its control div included) are moved in front of it
PageApplyChangeDom(cells, n, accept) ==
  LET g == cells[n]
      keep == IF accept THEN {"ins", "t"} ELSE {"del", "t"}
  IN SubSeq(cells, 1, n - 1)
       \o TextCells(KidsText(g.kids, keep))
       \o (IF g.act THEN <<ActionCell>> ELSE <<>>)
       \o SubSeq(cells, n + 1, Len(cells))

PageApplyChange(cells, n, accept) ==
  AttachAcceptRejectHandlers(PageApplyChangeDom(cells, n, accept))

\* ------------------------------------------------------ markup strings
(***************************************************************************)
(* A markup string is [wrap, cells]: wrap is "pre" when the cells sit in   *)
(* the <div style="white-space:pre-wrap"> the diff emits, "virt" when in   *)
(* the virtualized container, "none" otherwise.  In a markup string the    *)
(* text is a sequence of markup tokens, in the DOM one of characters.      *)
(***************************************************************************)
Html(wrap, cells) == [wrap |-> wrap, cells |-> cells]

EmptyHtml == Html("none", <<>>)

\* text crossing the innerHTML boundary: parsed (entities decoded) or
\* serialized (& < > escaped)
MapToken(dir, c) == IF dir = "parse" THEN DecodeToken(c) ELSE EscapeChar(c)

MapKids(kids, dir) ==
  [n \in 1..Len(kids) |->
     [kids[n] EXCEPT !.s = [m \in 1..Len(kids[n].s) |-> MapToken(dir, kids[n].s[m])]]]

MapText(cells, dir) ==
  [n \in 1..Len(cells) |->
     IF cells[n].k = "c" THEN [cells[n] EXCEPT !.ch = MapToken(dir, cells[n].ch)]
     ELSE IF cells[n].k = "g" THEN [cells[n] EXCEPT !.kids = MapKids(cells[n].kids, dir)]
     ELSE cells[n]]

\* element.innerHTML = h
ParseHtml(h) == MapText(h.cells, "parse")

\* element.innerHTML, the serializer escapes & < > in text
InnerHTML(wrap, cells) == Html(wrap, MapText(cells, "serialize"))

\* escapeHtml of the client pages: & < > " ' become entities
EscapeChar5(c) ==
  CASE c = "&" -> "&amp;"
    [] c = "<" -> "&lt;"
    [] c = ">" -> "&gt;"
    [] c = "\"" -> "&quot;"
    [] c = "'" -> "&#039;"
    [] OTHER -> c

EscapeHtml5(t) == [n \in 1..Len(t) |-> EscapeChar5(t[n])]

\* ---------------------------------------------- Diff.diffWords (library)
\* maximal runs of whitespace and of non-whitespace characters
RECURSIVE TokenizeFrom(_, _, _)
TokenizeFrom(t, n, cur) ==
  IF n > Len(t) THEN (IF cur = <<>> THEN <<>> ELSE <<cur>>)
  ELSE IF cur # <<>> /\ IsWs(cur[1]) # IsWs(t[n])
       THEN <<cur>> \o TokenizeFrom(t, n + 1, <<t[n]>>)
       ELSE TokenizeFrom(t, n + 1, Append(cur, t[n]))

Tokenize(t) == TokenizeFrom(t, 1, <<>>)

RECURSIVE LcsLen(_, _, _, _)
LcsLen(x, y, a, b) ==
  IF a > Len(x) \/ b > Len(y) THEN 0
  ELSE IF x[a] = y[b] THEN 1 + LcsLen(x, y, a + 1, b + 1)
  ELSE LET d == LcsLen(x, y, a + 1, b)
           r == LcsLen(x, y, a, b + 1)
       IN IF d >= r THEN d ELSE r

Part(value, added, removed) == [value |-> value, added |-> added, removed |-> removed]

\* one part per token along a longest common subsequence
RECURSIVE LcsScript(_, _, _, _)
LcsScript(x, y, a, b) ==
  IF a > Len(x) /\ b > Len(y) THEN <<>>
  ELSE IF a <= Len(x) /\ b <= Len(y) /\ x[a] = y[b]
       THEN <<Part(x[a], FALSE, FALSE)>> \o LcsScript(x, y, a + 1, b + 1)
  ELSE IF a <= Len(x) /\ (b > Len(y) \/ LcsLen(x, y, a + 1, b) >= LcsLen(x, y, a, b + 1))
       THEN <<Part(x[a], FALSE, TRUE)>> \o LcsScript(x, y, a + 1, b)
  ELSE <<Part(y[b], TRUE, FALSE)>> \o LcsScript(x, y, a, b + 1)

\* consecutive parts of the same kind are one part
RECURSIVE Coalesce(_)
Coalesce(ps) ==
  IF Len(ps) < 2 THEN ps
  ELSE IF ps[1].added = ps[2].added /\ ps[1].removed = ps[2].removed
       THEN Coalesce(<<Part(ps[1].value \o ps[2].value, ps[1].added, ps[1].removed)>>
                     \o SubSeq(ps, 3, Len(ps)))
       ELSE <<ps[1]>> \o Coalesce(Tail(ps))

diffWords(a, b) == Coalesce(LcsScript(Tokenize(a), Tokenize(b), 1, 1))

\* ------------------------------------------------ change-group formatter
Abs(n) == IF n < 0 THEN -n ELSE n

Max(a, b) == IF a >= b THEN a ELSE b

\* page.tsx:77-86, the greedy count of characters the two words share
RECURSIVE CommonCount(_, _, _, _)
CommonCount(w1, w2, a, b) ==
  IF ~(a < Len(w1) /\ b < Len(w2)) THEN 0
  ELSE IF w1[a + 1] = w2[b + 1] THEN 1 + CommonCount(w1, w2, a + 1, b + 1)
  ELSE IF a < Len(w1) - 1 /\ w1[a + 2] = w2[b + 1] THEN CommonCount(w1, w2, a + 1, b)
  ELSE IF b < Len(w2) - 1 /\ w1[a + 1] = w2[b + 2] THEN CommonCount(w1, w2, a, b + 1)
  ELSE CommonCount(w1, w2, a + 1, b + 1)

areWordsSimilar(w1, w2) ==
  /\ w1 # <<>>
  /\ w2 # <<>>
  /\ ~(10 * Abs(Len(w1) - Len(w2)) > 4 * Max(Len(w1), Len(w2)))
  /\ 10 * CommonCount(w1, w2, 0, 0) >= 6 * Max(Len(w1), Len(w2))

IsEqualPart(p) == ~p.added /\ ~p.removed

PartKid(p) == Kid(IF p.removed THEN "del" ELSE "ins", EscapeHtml5(p.value))

\* whether the group is flushed after part n; bySimilarity is page.tsx's
\* extra rule (page.tsx:112-118), absent from part_012
FlushAfter(parts, n, bySimilarity) ==
  \/ n = Len(parts)
  \/ IsEqualPart(parts[n + 1])
  \/ /\ bySimilarity
     /\ \/ parts[n].added /\ parts[n + 1].removed
        \/ /\ parts[n].removed /\ parts[n + 1].added
           /\ ~areWordsSimilar(Trim(parts[n].value), Trim(parts[n + 1].value))

\* the for loop over the parts: cells emitted so far, open groupContent.
\* flushGroup(false) never meets a non-empty groupContent, since the part
\* before an equal part always flushes.
RECURSIVE FormatFrom(_, _, _, _, _)
FormatFrom(parts, n, cells, groupContent, bySimilarity) ==
  IF n > Len(parts) THEN cells
  ELSE IF IsEqualPart(parts[n])
       THEN FormatFrom(parts, n + 1, cells \o TextCells(EscapeHtml5(parts[n].value)),
                       <<>>, bySimilarity)
  ELSE LET gc == Append(groupContent, PartKid(parts[n]))
       IN IF FlushAfter(parts, n, bySimilarity)
          THEN FormatFrom(parts, n + 1, Append(cells, GroupCell(gc, FALSE)), <<>>,
                          bySimilarity)
          ELSE FormatFrom(parts, n + 1, cells, gc, bySimilarity)

\* page.tsx generateDiffHtml
generateDiffHtml(a, b) == Html("pre", FormatFrom(diffWords(a, b), 1, <<>>, <<>>, TRUE))

\* the catch branches of part_012: the edited text, escaped, unwrapped
FallbackHtml(b) == Html("none", TextCells(EscapeHtml5(b)))

\* part_012 generateDiffHtmlDirect; window.Diff may be absent
generateDiffHtmlDirect(a, b, diffLib) ==
  IF ~diffLib THEN FallbackHtml(b)
  ELSE Html("pre", FormatFrom(diffWords(a, b), 1, <<>>, <<>>, FALSE))

\* part_012 DIFF_WORKER_CODE onmessage; threw: Diff.diffWords raised
WorkerHtml(a, b, threw) ==
  IF threw THEN FallbackHtml(b)
  ELSE Html("pre", FormatFrom(diffWords(a, b), 1, <<>>, <<>>, FALSE))

\* -------------------------------------------------------------- state
VARIABLES
  dom,                    \* children of the surface (inside its wrapper)
  wrapped,                \* the wrapper of dom: "none", "pre" or "virt"
  verdicts,               \* SpecDiff: the accept/reject decisions taken
  impl,                   \* "page": edit-tracked/page.tsx, "worker": part_012
  docs,                   \* the documents list of useDocument
  diffLib,                \* whether window.Diff is present
  currentDoc,             \* id of currentDoc, 0 for null
  trackedHtmlState,
  isLoadingContent,
  unsavedChanges,
  originalTrackedHtmlRef,
  requestIdRef,
  workerQueue,            \* messages posted to the worker, not yet answered
  isApplyingChangeRef,
  pendingChange,          \* the requestAnimationFrame callback of applyChange
  timers,                 \* the setTimeout(..., 0) callbacks of loadDocument
  editedText,             \* the clean text (editor.editedText, cleanRef)
  inputText,
  isSaving,
  saveOp,                 \* the saveProgress call awaiting the save API
  lastOp,                 \* the operation that completed last
  edits,                  \* raw edits (typing, pasting, deleting) made so far
  caret                   \* the collapsed selection: the cells before it

surfVars == <<wrapped, impl, docs, diffLib, currentDoc, trackedHtmlState,
              isLoadingContent, unsavedChanges, originalTrackedHtmlRef,
              requestIdRef, workerQueue, isApplyingChangeRef, pendingChange,
              timers, editedText, inputText, isSaving, saveOp, lastOp,
              edits, caret>>

vars == <<diffVars, dom, verdicts, surfVars>>

\* ------------------------------------------------------------ documents
NumDocs == 2

VIRTUALIZATION_THRESHOLD == 4    \* 5000 characters, scaled to the model's texts

Doc(o, e, th) == [original_text |-> o, edited_text |-> e, tracked_html |-> th]

\* a small document, the others large, none saved with markup yet
InitialDocs ==
  [n \in 1..NumDocs |->
     IF n = 1 THEN Doc(<<"a">>, <<"b">>, EmptyHtml)
     ELSE Doc(<<"a", " ", "b">>, <<"a", " ", "c">>, EmptyHtml)]

\* the texts the user types or pastes
TypedTexts == {<<"c">>}

\* --------------------------------------------- part_012 surface helpers
\* length of a markup string, counted in text tokens
HtmlLength(h) == Len(TextContent(h.cells))

HasAction(c) == c.k = "a" \/ (c.k = "g" /\ c.act)

\* html.match(/<div[^>]*>([\s\S]*?)<\/div>/): the content of the first div
\* up to the first </div>, or the whole string when there is no div
InnerMatch(h) ==
  LET withAct == {n \in 1..Len(h.cells) : HasAction(h.cells[n])}
      first == CHOOSE n \in withAct : \A m \in withAct : n <= m
  IN IF h.wrap = "none"
     THEN IF withAct = {} THEN h.cells ELSE <<ButtonsCell>>
     ELSE IF withAct = {} THEN h.cells ELSE SubSeq(h.cells, 1, first)

\* renderVirtualizedContent: the inner content, in one chunk of a
\* virtualized-container
renderVirtualizedContent(h) == Html("virt", InnerMatch(h))

\* consecutive text children of a group are one text node in the markup
RECURSIVE NormKids(_)
NormKids(kids) ==
  IF Len(kids) < 2 THEN kids
  ELSE IF kids[1].tag = "t" /\ kids[2].tag = "t"
       THEN NormKids(<<Kid("t", kids[1].s \o kids[2].s)>> \o SubSeq(kids, 3, Len(kids)))
       ELSE <<kids[1]>> \o NormKids(Tail(kids))

\* part_012 applyChange:338-356, the clone of the group with one side
\* removed and the other unwrapped; it is still a span.change-group
CloneApplied(g, accept) ==
  LET drop == IF accept THEN "del" ELSE "ins"
      left == SelectSeq(g.kids, LAMBDA c : c.tag # drop)
  IN [g EXCEPT !.kids = NormKids([n \in 1..Len(left) |-> Kid("t", left[n].s)])]

\* part_012 updateCleanFromTracked: only the top-level nodes of the surface
\* are looked at; inside a wrapper div nothing is removed
WorkerUpdateCleanFromTracked(wrap, cells) ==
  IF wrap = "none"
  THEN TextContent(SelectSeq(cells, LAMBDA c : c.k # "g"))
  ELSE TextContent(cells)

updateCleanFromTracked(im, wrap, cells) ==
  IF im = "page" THEN PageUpdateCleanFromTracked(cells)
  ELSE WorkerUpdateCleanFromTracked(wrap, cells)

\* the render effect, part_012:564-579
RenderEffect(h, loading, wrap, cells) ==
  IF h = EmptyHtml THEN [wrap |-> wrap, cells |-> cells, wrote |-> FALSE]
  ELSE IF loading THEN [wrap |-> "none", cells |-> <<SpinnerCell>>, wrote |-> TRUE]
  ELSE LET shown == IF HtmlLength(h) > VIRTUALIZATION_THRESHOLD
                    THEN renderVirtualizedContent(h) ELSE h
       IN [wrap |-> shown.wrap,
           cells |-> AttachAcceptRejectHandlers(ParseHtml(shown)),
           wrote |-> TRUE]

\* the MutationObserver callback: isDirty
IsDirty(wrap, cells, baseline) == InnerHTML(wrap, cells) # baseline

\* range.toString() of the cells p+1..q
RangeText(cells, p, q) == TextContent(SubSeq(cells, p + 1, q))

ReplaceRange(cells, p, q, new) ==
  SubSeq(cells, 1, p) \o new \o SubSeq(cells, q + 1, Len(cells))

RemoveActions(cells) ==
  LET kept == SelectSeq(cells, LAMBDA c : c.k # "a")
  IN [n \in 1..Len(kept) |-> [kept[n] EXCEPT !.act = FALSE]]

\* ---------------------------------------------------------------- bounds
MaxRequests == 2     \* worker dispatches
MaxReviewRequests == 1   \* worker dispatches in a session with reviewing
MaxSaves == 1        \* documents that get saved
MaxEdits == 1        \* raw edits

\* ------------------------------------------------------------ init states
NoBody == [input |-> <<>>, model |-> "", chunkIndex |-> -1, key |-> FALSE]

JobsIdle == jobQueue = <<>> /\ jobRuns = <<>> /\ jobResponse = <<>>

ApiIdle ==
  /\ body = NoBody /\ modelOrder = <<>> /\ attempted = <<>>
  /\ variationsResult = <<>> /\ usedModel = "" /\ response = <<>>
  /\ apiPc = "idle"
  /\ JobsIdle

GtcIdle ==
  /\ original = <<>> /\ edited = <<>> /\ variant = "none"
  /\ words1 = <<>> /\ words2 = <<>> /\ i = 0 /\ j = 0
  /\ html = <<>> /\ changes = 0 /\ pc = "idle" /\ iter = 0

DiffIdle ==
  /\ GtcIdle
  /\ ApiIdle
  /\ verdicts = {}

SurfaceIdle ==
  /\ wrapped = "none"
  /\ currentDoc = 0
  /\ trackedHtmlState = EmptyHtml
  /\ isLoadingContent = FALSE
  /\ unsavedChanges = FALSE
  /\ originalTrackedHtmlRef = EmptyHtml
  /\ requestIdRef = 0
  /\ workerQueue = <<>>
  /\ isApplyingChangeRef = FALSE
  /\ pendingChange = <<>>
  /\ timers = <<>>
  /\ edits = 0
  /\ editedText = <<>>
  /\ inputText = <<>>
  /\ isSaving = FALSE
  /\ saveOp = <<>>
  /\ lastOp = "none"
  /\ caret = 0

Init ==
  /\ DiffIdle
  /\ SurfaceIdle
  /\ docs = InitialDocs
  /\ dom = <<>>
  /\ impl \in {"page", "worker"}
  /\ diffLib \in (IF impl = "page" THEN {TRUE} ELSE BOOLEAN)

\* the MutationObserver runs after a step that wrote the surface; its
\* setUnsavedChanges is the last one of the step
Observed(wrote, handlerValue) ==
  unsavedChanges' = IF wrote
                    THEN IsDirty(wrapped', dom', originalTrackedHtmlRef')
                    ELSE handlerValue

\* attachAcceptRejectHandlers removes or appends at least one control
AttachMutates(cells) == \E n \in 1..Len(cells) : cells[n].k \in {"g", "a"}

\* the surface element has no child at all
SurfaceEmpty(wrap, cells) == wrap = "none" /\ cells = <<>>

\* a re-rendered surface detaches the group a pending applyChange holds
\* a boundary point after c cells, once every .change-action before it is
\* removed (attachAcceptRejectHandlers)
CaretKept(cells, c) == Len(SelectSeq(SubSeq(cells, 1, c), LAMBDA x : x.k # "a"))

\* an assignment to innerHTML removes the nodes the selection is in: the
\* range collapses to the start of the surface
CaretAfterRender(wrote, c) == IF wrote THEN 0 ELSE c

\* page.tsx applyChange: the children of the group at cell n (len text
\* nodes, and the control div when attached) are inserted before it and the
\* group is removed; a boundary point behind the group moves along
CaretAfterUnwrap(c, n, len, act) ==
  IF c < n THEN c ELSE c - 1 + len + (IF act THEN 1 ELSE 0)

\* part_012 applyChange: replaceChild(clone, group) removes the group at
\* cell n and then inserts the clone; a boundary point right behind the
\* group ends up in front of the clone
CaretAfterReplace(c, n) == IF c = n THEN n - 1 ELSE c

Detach(pending) == [n \in 1..Len(pending) |-> [pending[n] EXCEPT !.live = FALSE]]

NumSaved == Cardinality({d \in 1..NumDocs : docs[d] # InitialDocs[d]})

\* ------------------------------------------------------------- loading
\* part_012 loadDocument together with the commit it causes
WorkerLoadDocument(d) ==
  LET doc == docs[d]
      saved == doc.tracked_html # EmptyHtml
      large == Len(doc.original_text) + Len(doc.edited_text) > VIRTUALIZATION_THRESHOLD
      h == IF saved THEN doc.tracked_html
           ELSE IF large THEN trackedHtmlState
           ELSE generateDiffHtmlDirect(doc.original_text, doc.edited_text, diffLib)
      loading == ~saved
      r == RenderEffect(h, loading, wrapped, dom)
      ran == h # trackedHtmlState \/ loading # isLoadingContent
  IN /\ impl = "worker"
     /\ UNCHANGED <<diffVars, verdicts, edits, impl, docs, diffLib, isApplyingChangeRef,
                    isSaving, saveOp>>
     /\ caret' = CaretAfterRender(ran /\ r.wrote, caret)
     /\ timers = <<>>
     /\ (~saved /\ large) => requestIdRef < MaxRequests
     /\ inputText' = doc.original_text
     /\ editedText' = doc.edited_text
     /\ currentDoc' = d
     /\ trackedHtmlState' = h
     /\ isLoadingContent' = loading
     /\ IF ~saved /\ large
        THEN /\ requestIdRef' = requestIdRef + 1
             /\ workerQueue' = Append(workerQueue,
                  [original |-> doc.original_text, edited |-> doc.edited_text,
                   requestId |-> requestIdRef + 1])
        ELSE UNCHANGED <<requestIdRef, workerQueue>>
     /\ originalTrackedHtmlRef' = doc.tracked_html
     /\ timers' = Append(timers, [html |-> IF saved THEN doc.tracked_html
                                           ELSE trackedHtmlState])
     /\ IF ran
        THEN /\ dom' = r.cells
             /\ wrapped' = r.wrap
             /\ pendingChange' = IF r.wrote THEN Detach(pendingChange) ELSE pendingChange
             /\ Observed(r.wrote, FALSE)
        ELSE /\ UNCHANGED <<dom, wrapped, pendingChange>>
             /\ unsavedChanges' = FALSE
     /\ lastOp' = "load"

\* the setTimeout callback of part_012 loadDocument
WorkerLoadTimeout ==
  /\ impl = "worker"
  /\ UNCHANGED <<diffVars, verdicts, edits, impl, docs, diffLib, currentDoc,
                 trackedHtmlState, isLoadingContent, originalTrackedHtmlRef,
                 requestIdRef, workerQueue, isApplyingChangeRef, editedText,
                 inputText, isSaving, saveOp>>
  /\ timers # <<>>
  /\ timers' = Tail(timers)
  /\ dom' = AttachAcceptRejectHandlers(ParseHtml(Head(timers).html))
  /\ wrapped' = Head(timers).html.wrap
  /\ pendingChange' = Detach(pendingChange)
  /\ caret' = 0
  /\ Observed(~(SurfaceEmpty(wrapped, dom) /\ Head(timers).html = EmptyHtml),
              unsavedChanges)
  /\ lastOp' = "timeout"

\* a handler that renders every response, whatever its id
IsLatestIgnoringId(requestId, latest) == TRUE

\* workerRef.onmessage: the response carries the id issued last
IsLatest(requestId, latest) == requestId = latest

\* the worker answers its oldest message; workerRef.onmessage renders the
\* answer when its id is the latest one
WorkerReply(threw) ==
  LET msg == Head(workerQueue)
      h == WorkerHtml(msg.original, msg.edited, threw)
      r == RenderEffect(h, FALSE, wrapped, dom)
      ran == h # trackedHtmlState \/ isLoadingContent
  IN /\ impl = "worker"
     /\ UNCHANGED <<diffVars, verdicts, edits, impl, docs, diffLib, currentDoc,
                    originalTrackedHtmlRef, requestIdRef, isApplyingChangeRef,
                    timers, editedText, inputText, isSaving, saveOp>>
     /\ workerQueue # <<>>
     /\ workerQueue' = Tail(workerQueue)
     /\ caret' = CaretAfterRender(IsLatest(msg.requestId, requestIdRef) /\ ran /\ r.wrote,
                                  caret)
     /\ IF IsLatest(msg.requestId, requestIdRef)
        THEN /\ trackedHtmlState' = h
             /\ isLoadingContent' = FALSE
             /\ IF ran
                THEN /\ dom' = r.cells
                     /\ wrapped' = r.wrap
                     /\ pendingChange' = IF r.wrote THEN Detach(pendingChange)
                                         ELSE pendingChange
                     /\ Observed(r.wrote, unsavedChanges)
                ELSE UNCHANGED <<dom, wrapped, pendingChange, unsavedChanges>>
             /\ lastOp' = "reply"
        ELSE /\ UNCHANGED <<trackedHtmlState, isLoadingContent, dom, wrapped,
                            pendingChange, unsavedChanges>>
             /\ lastOp' = "stale"

\* page.tsx loadDocument: the diff is computed and rendered at once
PageLoadDocument(d) ==
  LET doc == docs[d]
      h == generateDiffHtml(doc.original_text, doc.edited_text)
  IN /\ impl = "page"
     /\ UNCHANGED <<diffVars, verdicts, edits, impl, docs, diffLib, trackedHtmlState,
                    isLoadingContent, requestIdRef, workerQueue,
                    isApplyingChangeRef, pendingChange, editedText, inputText,
                    isSaving, saveOp>>
     /\ timers = <<>>
     /\ dom' = ParseHtml(h)
     /\ wrapped' = h.wrap
     /\ originalTrackedHtmlRef' = h
     /\ timers' = Append(timers, [html |-> EmptyHtml])
     /\ currentDoc' = d
     /\ caret' = 0
     /\ Observed(TRUE, FALSE)
     /\ lastOp' = "load"

\* the setTimeout callback of page.tsx loadDocument
PageLoadTimeout ==
  /\ impl = "page"
  /\ UNCHANGED <<diffVars, verdicts, edits, wrapped, impl, docs, diffLib, currentDoc,
                 trackedHtmlState, isLoadingContent, originalTrackedHtmlRef,
                 requestIdRef, workerQueue, isApplyingChangeRef, pendingChange,
                 inputText, isSaving, saveOp>>
  /\ timers # <<>>
  /\ timers' = Tail(timers)
  /\ dom' = AttachAcceptRejectHandlers(dom)
  /\ caret' = CaretKept(dom, caret)
  /\ editedText' = PageUpdateCleanFromTracked(dom')
  /\ Observed(AttachMutates(dom), unsavedChanges)
  /\ lastOp' = "timeout"

\* ------------------------------------------------------ accept / reject
\* a click on the accept or reject button of the group at cell n; the
\* zero-delay timer of loadDocument has run before a user event is handled
CanClick(n) == n \in GroupIdx(dom) /\ dom[n].act /\ timers = <<>>

\* page.tsx applyChange, synchronous
PageAcceptReject(n, accept) ==
  /\ impl = "page"
  /\ UNCHANGED <<diffVars, verdicts, edits, wrapped, impl, docs, diffLib, currentDoc,
                 trackedHtmlState, isLoadingContent, originalTrackedHtmlRef,
                 requestIdRef, workerQueue, isApplyingChangeRef, pendingChange,
                 timers, inputText, isSaving, saveOp>>
  /\ CanClick(n)
  /\ dom' = PageApplyChange(dom, n, accept)
  /\ caret' = CaretKept(PageApplyChangeDom(dom, n, accept),
                        CaretAfterUnwrap(caret, n,
                          Len(KidsText(dom[n].kids,
                                       IF accept THEN {"ins", "t"} ELSE {"del", "t"})),
                          dom[n].act))
  /\ editedText' = PageUpdateCleanFromTracked(PageApplyChangeDom(dom, n, accept))
  /\ Observed(TRUE, IsDirty(wrapped, PageApplyChangeDom(dom, n, accept),
                            originalTrackedHtmlRef))
  /\ lastOp' = IF accept THEN "accept" ELSE "reject"

\* part_012 applyChange up to requestAnimationFrame
WorkerAcceptReject(n, accept) ==
  /\ impl = "worker"
  /\ CanClick(n)
  /\ IF isApplyingChangeRef
     THEN /\ lastOp' = "dropped"
          /\ UNCHANGED <<isApplyingChangeRef, pendingChange>>
     ELSE /\ isApplyingChangeRef' = TRUE
          /\ pendingChange' = <<[n |-> n, accept |-> accept,
                                 clone |-> CloneApplied(dom[n], accept),
                                 live |-> TRUE]>>
          /\ lastOp' = "click"
  /\ UNCHANGED <<diffVars, verdicts, edits, dom, wrapped, impl, docs, diffLib,
                 currentDoc, trackedHtmlState, isLoadingContent, unsavedChanges,
                 originalTrackedHtmlRef, requestIdRef, workerQueue, timers,
                 editedText, inputText, isSaving, saveOp, caret>>

\* a callback that clears the guard only when it has replaced the group
GuardKeptWhenDetached(pend) == ~pend.live

\* the last statement of the requestAnimationFrame callback:
\* isApplyingChangeRef.current = false, whatever replaceChild did
GuardAfterFrame(pend) == FALSE

\* the requestAnimationFrame callback of part_012 applyChange
WorkerApplyFrame ==
  LET pend == pendingChange[1]
      replaced == IF pend.live
                  THEN [dom EXCEPT ![pend.n] = pend.clone]
                  ELSE dom
  IN /\ impl = "worker"
     /\ UNCHANGED <<diffVars, verdicts, edits, wrapped, impl, docs, diffLib, currentDoc,
                    trackedHtmlState, isLoadingContent, originalTrackedHtmlRef,
                    requestIdRef, workerQueue, timers, inputText, isSaving,
                    saveOp>>
     /\ pendingChange # <<>>
     /\ pendingChange' = <<>>
     /\ dom' = AttachAcceptRejectHandlers(replaced)
     /\ caret' = CaretKept(replaced, IF pend.live THEN CaretAfterReplace(caret, pend.n)
                                     ELSE caret)
     /\ editedText' = WorkerUpdateCleanFromTracked(wrapped, replaced)
     /\ isApplyingChangeRef' = GuardAfterFrame(pend)
     /\ Observed(pend.live \/ AttachMutates(replaced), TRUE)
     /\ lastOp' = IF ~pend.live THEN "detached"
                  ELSE IF pend.accept THEN "accept" ELSE "reject"

\* ------------------------------------------------------------ raw edits
\* the surface takes key and paste events: a document is shown and the
\* element is contentEditable
Editable ==
  currentDoc # 0 /\ ~isLoadingContent /\ timers = <<>> /\ edits < MaxEdits

InsGroup(text) == GroupCell(<<Kid("ins", text)>>, FALSE)

\* the browser's own editing of the cells p+1..q, which runs when a handler
\* returns without preventDefault: the range is replaced by plain text
NativeEdit(cells, p, q, text) == ReplaceRange(cells, p, q, TextCells(text))

\* the group a pending applyChange holds, after the cells p+1..q were
\* replaced by len cells: it has moved, or it has left the document
ShiftPending(pending, p, q, len) ==
  [m \in 1..Len(pending) |->
     IF pending[m].n <= p THEN pending[m]
     ELSE IF pending[m].n > q
          THEN [pending[m] EXCEPT !.n = pending[m].n - (q - p) + len]
          ELSE [pending[m] EXCEPT !.live = FALSE]]

DelGroup(text) == GroupCell(<<Kid("del", text)>>, FALSE)

\* insertTrackedInsertion(text) with the selection spanning cells p+1..q
\* (p = q: a collapsed caret): range.deleteContents(), then the new group
InsertedDom(cells, p, q, text) == ReplaceRange(cells, p, q, <<InsGroup(text)>>)

\* the text is typed (beforeinput) or pasted (paste).  While applyChange is
\* pending, paste is prevented and dropped, beforeinput returns before
\* preventDefault and the browser inserts the text itself.
insertTrackedInsertion(text, p, q) ==
  /\ Editable
  /\ UNCHANGED <<diffVars, verdicts, wrapped, impl, docs, diffLib, currentDoc,
                 trackedHtmlState, isLoadingContent, originalTrackedHtmlRef,
                 requestIdRef, workerQueue, isApplyingChangeRef,
                 timers, inputText, isSaving, saveOp>>
  /\ 0 <= p /\ p <= q /\ q <= Len(dom)
  /\ text # <<>>
  /\ IF isApplyingChangeRef
     THEN \/ /\ lastOp' = "dropped"
             /\ UNCHANGED <<dom, editedText, unsavedChanges, edits, pendingChange,
                            caret>>
          \/ /\ dom' = NativeEdit(dom, p, q, text)
             /\ caret' = p + Len(text)
             /\ pendingChange' = ShiftPending(pendingChange, p, q, Len(text))
             /\ Observed(TRUE, unsavedChanges)
             /\ lastOp' = "nativeinsert"
             /\ edits' = edits + 1
             /\ UNCHANGED editedText
     ELSE /\ UNCHANGED pendingChange
          /\ dom' = AttachAcceptRejectHandlers(InsertedDom(dom, p, q, text))
          /\ caret' = CaretKept(InsertedDom(dom, p, q, text), p + 1)
          /\ editedText' = updateCleanFromTracked(impl, wrapped,
                                                  InsertedDom(dom, p, q, text))
          /\ Observed(TRUE, TRUE)
          /\ lastOp' = "insert"
          /\ edits' = edits + 1

\* the range handleDeletion ends up with, <<p, q>>, or <<>> when it returns
\* early.  A collapsed caret sits in a text node (page.tsx:236-245); in
\* part_012 a collapsed range has no text (part_012:390).
DeletionRange(im, cells, p, q, isForward) ==
  IF p < q THEN <<p, q>>
  ELSE IF im = "worker" THEN <<>>
  ELSE IF isForward
       THEN (IF p < Len(cells) /\ cells[p + 1].k = "c" THEN <<p, p + 1>> ELSE <<>>)
       ELSE (IF p > 0 /\ cells[p].k = "c" THEN <<p - 1, p>> ELSE <<>>)

\* what the browser's own Backspace or Delete removes: the selection, or the
\* character before (after) the caret; <<>> when that is no plain character
NativeRange(cells, p, q, isForward) ==
  IF p < q THEN <<p, q>>
  ELSE IF isForward
       THEN (IF p < Len(cells) /\ cells[p + 1].k = "c" THEN <<p, p + 1>> ELSE <<>>)
       ELSE (IF p > 0 /\ cells[p].k = "c" THEN <<p - 1, p>> ELSE <<>>)

\* the surface when handleDeletion looks at the range: page.tsx has
\* removed every .change-action by then (page.tsx:233)
DeletionBase(im, cells) == IF im = "page" THEN RemoveActions(cells) ELSE cells

\* the text the new <del> gets, <<>> when the handler returns early
DeletionText(im, cells, p, q, isForward) ==
  LET r == DeletionRange(im, cells, p, q, isForward)
      t == IF r = <<>> THEN <<>> ELSE RangeText(DeletionBase(im, cells), r[1], r[2])
  IN IF Trim(t) = <<>> THEN <<>> ELSE t

\* part_012:401-405 puts the caret behind the new group, page.tsx:255-259
\* at the start of the deleted range, in front of it
CaretAfterDeletion(im, cells, p, q, isForward) ==
  LET r == DeletionRange(im, cells, p, q, isForward)
  IN IF im = "page" THEN r[1] ELSE r[1] + 1

DeletedDom(im, cells, p, q, isForward) ==
  LET r == DeletionRange(im, cells, p, q, isForward)
  IN ReplaceRange(DeletionBase(im, cells), r[1], r[2],
                  <<DelGroup(DeletionText(im, cells, p, q, isForward))>>)

\* keydown of Backspace (isForward = FALSE) or Delete (isForward = TRUE)
\* While applyChange is pending the handler returns before preventDefault
\* and the browser deletes the selection, or the character next to the
\* caret, itself.
handleDeletion(p, q, isForward) ==
  /\ Editable
  /\ UNCHANGED <<diffVars, verdicts, wrapped, impl, docs, diffLib, currentDoc,
                 trackedHtmlState, isLoadingContent, originalTrackedHtmlRef,
                 requestIdRef, workerQueue, isApplyingChangeRef,
                 timers, inputText, isSaving, saveOp>>
  /\ 0 <= p /\ p <= q /\ q <= Len(dom)
  /\ p = q => \/ (p > 0 /\ dom[p].k = "c")
              \/ (p < Len(dom) /\ dom[p + 1].k = "c")
  /\ IF isApplyingChangeRef
     THEN IF NativeRange(dom, p, q, isForward) = <<>>
          THEN /\ lastOp' = "dropped"
               /\ UNCHANGED <<dom, editedText, unsavedChanges, edits, pendingChange,
                              caret>>
          ELSE LET r == NativeRange(dom, p, q, isForward)
               IN /\ dom' = NativeEdit(dom, r[1], r[2], <<>>)
                  /\ caret' = r[1]
                  /\ pendingChange' = ShiftPending(pendingChange, r[1], r[2], 0)
                  /\ Observed(TRUE, unsavedChanges)
                  /\ lastOp' = "nativedelete"
                  /\ edits' = edits + 1
                  /\ UNCHANGED editedText
     ELSE IF DeletionText(impl, dom, p, q, isForward) = <<>>
     THEN /\ UNCHANGED pendingChange
          /\ dom' = DeletionBase(impl, dom)
          /\ caret' = IF impl = "page" THEN CaretKept(dom, caret) ELSE caret
          /\ Observed(dom' # dom, unsavedChanges)
          /\ lastOp' = "nodelete"
          /\ UNCHANGED <<editedText, edits>>
     ELSE /\ UNCHANGED pendingChange
          /\ dom' = AttachAcceptRejectHandlers(DeletedDom(impl, dom, p, q, isForward))
          /\ caret' = CaretKept(DeletedDom(impl, dom, p, q, isForward),
                                CaretAfterDeletion(impl, dom, p, q, isForward))
          /\ editedText' = updateCleanFromTracked(impl, wrapped,
                             DeletedDom(impl, dom, p, q, isForward))
          /\ Observed(TRUE, TRUE)
          /\ lastOp' = "delete"
          /\ edits' = edits + 1

\* ---------------------------------------------------------------- saving
\* useDocument.saveProgress refuses blank texts (part_005:287-290)
SaveRefused(op) == Trim(op.input) = <<>> \/ Trim(op.clean) = <<>>

\* saveProgress of the page up to its await of the save API; the button is
\* disabled without unsaved changes, while saving and while loading
saveProgress ==
  /\ currentDoc # 0
  /\ unsavedChanges
  /\ ~isSaving
  /\ ~isLoadingContent
  /\ timers = <<>>
  /\ saveOp = <<>>
  /\ isSaving' = TRUE
  /\ saveOp' = <<[doc |-> currentDoc,
                  clean |-> IF impl = "page" THEN PageUpdateCleanFromTracked(dom)
                            ELSE editedText,
                  input |-> IF impl = "page" THEN docs[currentDoc].original_text
                            ELSE inputText,
                  content |-> IF impl = "page" THEN EmptyHtml
                              ELSE InnerHTML(wrapped, dom)]>>
  /\ lastOp' = "saving"
  /\ UNCHANGED <<diffVars, verdicts, edits, dom, wrapped, impl, docs, diffLib,
                 currentDoc, trackedHtmlState, isLoadingContent, unsavedChanges,
                 originalTrackedHtmlRef, requestIdRef, workerQueue,
                 isApplyingChangeRef, pendingChange, timers, editedText,
                 inputText, caret>>

\* the save API returns true (ok) or false; it never throws
\* (part_005:285-318), and saveProgress does not look at what it returns
SaveReturn(ok) ==
  /\ saveOp # <<>>
  /\ ok => ~SaveRefused(saveOp[1])
  /\ ok => NumSaved < MaxSaves
  /\ saveOp' = <<>>
  /\ docs' = IF ok
             THEN [docs EXCEPT ![saveOp[1].doc] =
                     Doc(Trim(saveOp[1].input), Trim(saveOp[1].clean),
                         saveOp[1].content)]
             ELSE docs
  /\ originalTrackedHtmlRef' = IF impl = "page" THEN InnerHTML(wrapped, dom)
                               ELSE saveOp[1].content
  /\ unsavedChanges' = FALSE
  /\ isSaving' = FALSE
  /\ lastOp' = IF ok THEN "saved" ELSE "savefailed"
  /\ UNCHANGED <<diffVars, verdicts, edits, dom, wrapped, impl, diffLib, currentDoc,
                 trackedHtmlState, isLoadingContent, requestIdRef, workerQueue,
                 isApplyingChangeRef, pendingChange, timers, editedText,
                 inputText, caret>>

\* ------------------------------------------------------------------ Spec
Positions == 0..(2 * MaxTextLen + 1)

\* loading, the worker and the timers
Loading ==
  \/ \E d \in 1..NumDocs :
       WorkerLoadDocument(d) /\ requestIdRef' <= MaxReviewRequests
  \/ \E d \in 1..NumDocs : PageLoadDocument(d)
  \/ WorkerLoadTimeout
  \/ PageLoadTimeout
  \/ \E threw \in BOOLEAN : WorkerReply(threw)

\* accepting and rejecting
Reviewing ==
  \/ \E n \in Positions, accept \in BOOLEAN : PageAcceptReject(n, accept)
  \/ \E n \in Positions, accept \in BOOLEAN : WorkerAcceptReject(n, accept)
  \/ WorkerApplyFrame

\* a session of loading, reviewing and saving
Next ==
  \/ Loading
  \/ Reviewing
  \/ saveProgress
  \/ \E ok \in BOOLEAN : SaveReturn(ok)

Spec == Init /\ [][Next]_vars

\* a session of loading and reviewing, nothing being saved
NextReview ==
  \/ Loading
  \/ Reviewing

SpecReview == Init /\ [][NextReview]_vars

\* the browser runs every requested animation frame callback
FairSpecReview == SpecReview /\ WF_vars(WorkerApplyFrame)

\* a session on one document: it is opened, reviewed, edited by typing,
\* pasting and deleting, and saved
NextEdit ==
  \/ \E d \in 1..NumDocs :
       currentDoc = 0 /\ WorkerLoadDocument(d) /\ requestIdRef' <= MaxReviewRequests
  \/ \E d \in 1..NumDocs : currentDoc = 0 /\ PageLoadDocument(d)
  \/ WorkerLoadTimeout
  \/ PageLoadTimeout
  \/ \E threw \in BOOLEAN : WorkerReply(threw)
  \/ Reviewing
  \/ \E text \in TypedTexts, p \in Positions, q \in Positions :
       insertTrackedInsertion(text, p, q)
  \/ \E p \in Positions, q \in Positions, isForward \in BOOLEAN :
       handleDeletion(p, q, isForward)
  \/ saveProgress
  \/ \E ok \in BOOLEAN : SaveReturn(ok)

SpecEdit == Init /\ [][NextEdit]_vars

\* ------------------------------------------------------------ SpecSaved
\* the markup part_012 saveProgress stores for a document it has just
\* rendered: the innerHTML of the surface, with the controls
SavedMarkup(o, e, threw) ==
  LET h == WorkerHtml(o, e, threw)
  IN InnerHTML(h.wrap, AttachAcceptRejectHandlers(ParseHtml(h)))

\* the document list when document d was stored with its markup
SavedDocs(d, threw) ==
  [n \in 1..NumDocs |->
     IF n = d THEN Doc(InitialDocs[d].original_text, InitialDocs[d].edited_text,
                       SavedMarkup(InitialDocs[d].original_text,
                                   InitialDocs[d].edited_text, threw))
     ELSE InitialDocs[n]]

\* a stored tracked_html that is no serialized tracked document: the
\* persistence layer returns the column as it is, here a change group
\* with two deleted spans
MalformedDocs ==
  [n \in 1..NumDocs |->
     IF n = 2 THEN Doc(InitialDocs[2].original_text, InitialDocs[2].edited_text,
                       Html("none", <<GroupCell(<<Kid("del", <<"a">>),
                                                  Kid("del", <<"b">>)>>, FALSE)>>))
     ELSE InitialDocs[n]]

InitSaved ==
  /\ DiffIdle
  /\ SurfaceIdle
  /\ docs \in {SavedDocs(d, threw) : d \in 1..NumDocs, threw \in BOOLEAN}
             \cup {MalformedDocs}
  /\ dom = <<>>
  /\ impl \in {"page", "worker"}
  /\ diffLib \in (IF impl = "page" THEN {TRUE} ELSE BOOLEAN)

\* a session on a document list that holds saved markup
SpecSaved == InitSaved /\ [][Next]_vars

\* --------------------------------------------------------- SpecDispatch
\* documents that all go through the worker: large, no saved markup
DispatchDocs ==
  [n \in 1..NumDocs |->
     IF n % 2 = 1 THEN Doc(<<"a", " ", "b">>, <<"a", " ", "c">>, EmptyHtml)
     ELSE Doc(<<"b", " ", "a">>, <<"c", " ", "a">>, EmptyHtml)]

InitDispatch ==
  /\ DiffIdle
  /\ SurfaceIdle
  /\ docs = DispatchDocs
  /\ dom = <<>>
  /\ impl = "worker"
  /\ diffLib \in BOOLEAN

\* large documents are opened one after the other while the worker answers
NextDispatch ==
  \/ \E d \in 1..NumDocs : WorkerLoadDocument(d)
  \/ WorkerLoadTimeout
  \/ \E threw \in BOOLEAN : WorkerReply(threw)

SpecDispatch == InitDispatch /\ [][NextDispatch]_vars

\* ------------------------------------------------------------- SpecDiff
\* the texts "I kno whom I am" and "I know who I am" over the alphabet of
\* the model: I = a, am = b, kno = aa, know = ab, whom = ba, who = bb
ExampleOriginal == <<"a", " ", "a", "a", " ", "b", "a", " ", "a", " ", "b">>

ExampleEdited == <<"a", " ", "a", "b", " ", "b", "b", " ", "a", " ", "b">>

InitDiff ==
  /\ \E texts \in (Texts \X Texts) \cup {<<ExampleOriginal, ExampleEdited>>} :
       original = texts[1] /\ edited = texts[2]
  /\ variant \in Variants
  /\ words1 = Words(variant, original)
  /\ words2 = Words(variant, edited)
  /\ i = 0
  /\ j = 0
  /\ html = <<>>
  /\ changes = 0
  /\ pc = "loop"
  /\ iter = 0
  /\ ApiIdle
  /\ dom = <<>>
  /\ verdicts = {}
  /\ SurfaceIdle
  /\ docs = InitialDocs
  /\ impl = "page"
  /\ diffLib = TRUE

\* one iteration of while (i < words1.length || j < words2.length)
GTCStep ==
  /\ pc = "loop"
  /\ i < Len(words1) \/ j < Len(words2)
  /\ LET r == Iteration(variant, words1, words2, i, j)
     IN /\ i' = r.i
        /\ j' = r.j
        /\ html' = html \o r.push
        /\ changes' = changes + r.changes
  /\ iter' = 1 - iter
  /\ UNCHANGED <<original, edited, variant, words1, words2, pc, apiVars, dom,
                 verdicts, surfVars>>

\* the loop condition fails: the markup is returned and rendered
GTCReturn ==
  /\ pc = "loop"
  /\ ~(i < Len(words1) \/ j < Len(words2))
  /\ pc' = "review"
  /\ dom' = AttachAcceptRejectHandlers(ParseItems(html))
  /\ UNCHANGED <<original, edited, variant, words1, words2, i, j, html,
                 changes, iter, apiVars, verdicts, surfVars>>

\* the reviewer clicks accept or reject on one of the groups
ReviewApply(n, accept) ==
  /\ pc = "review"
  /\ n \in GroupIdx(dom)
  /\ dom' = PageApplyChange(dom, n, accept)
  /\ verdicts' = verdicts \cup {accept}
  /\ UNCHANGED <<diffVars, surfVars>>

NextDiff ==
  \/ GTCStep
  \/ GTCReturn
  \/ \E n \in 1..(2 * MaxTextLen + 1), accept \in BOOLEAN : ReviewApply(n, accept)

SpecDiff == InitDiff /\ [][NextDiff]_vars

FairSpecDiff == SpecDiff /\ WF_vars(GTCStep) /\ WF_vars(GTCReturn)

\* -------------------------------------------------------------- SpecApi
\* ALLOWED_MODELS, shortened to three entries
ALLOWED_MODELS == <<"m1", "m2", "m3">>

Allowed == {ALLOWED_MODELS[n] : n \in 1..Len(ALLOWED_MODELS)}

MaxApiTextLen == 2

\* the characters of the request input and of the model's answer
ApiChars == {"a", "<", "&", " "}

ApiTexts == UNION {[1..n -> ApiChars] : n \in 0..MaxApiTextLen}

\* the fallback order without its final filter on ALLOWED_MODELS
OrderUnfiltered(preferredModel) ==
  <<preferredModel>> \o SelectSeq(ALLOWED_MODELS, LAMBDA m : m # preferredModel)

\* [preferredModel, ...ALLOWED_MODELS.filter(m => m !== preferredModel)]
\*   .filter(m => ALLOWED_MODELS.includes(m))
BuildModelOrder(preferredModel) ==
  SelectSeq(<<preferredModel>> \o SelectSeq(ALLOWED_MODELS, LAMBDA m : m # preferredModel),
            LAMBDA m : m \in Allowed)

\* generateTrackedChanges run to its return; hung when an iteration of the
\* outer loop leaves i and j as they were, which then repeats for ever
RECURSIVE RunFrom(_, _, _, _, _, _, _)
RunFrom(v, w1, w2, a, b, items, n) ==
  IF ~(a < Len(w1) \/ b < Len(w2))
  THEN [hung |-> FALSE, items |-> items, changes |-> n]
  ELSE LET r == Iteration(v, w1, w2, a, b)
       IN IF r.i = a /\ r.j = b
          THEN [hung |-> TRUE, items |-> items, changes |-> n]
          ELSE RunFrom(v, w1, w2, r.i, r.j, items \o r.push, n + r.changes)

generateTrackedChanges(v, o, e) == RunFrom(v, Words(v, o), Words(v, e), 0, 0, <<>>, 0)

\* a string that is put into the markup as it is
RawItem(t) == [k |-> "w", s |-> t, del |-> <<>>, ins |-> <<>>]

\* route.ts:138-142: a chunk request gets the model's text as its html
TrackedData(v, chunkIndex, input, primary) ==
  IF v = "route" /\ chunkIndex >= 0
  THEN [hung |-> FALSE, wrap |-> FALSE, items |-> <<RawItem(primary)>>, changes |-> 0]
  ELSE LET r == generateTrackedChanges(v, input, primary)
       IN [hung |-> r.hung, wrap |-> TRUE, items |-> r.items, changes |-> r.changes]

Response(status, err, primary, data, model) ==
  [status |-> status, error |-> err, editedText |-> primary,
   trackedHtml |-> [wrap |-> data.wrap, items |-> data.items],
   changes |-> data.changes, usedModel |-> model]

NoData == [wrap |-> FALSE, items |-> <<>>, changes |-> 0]

ErrorResponse(status, err) == Response(status, err, <<>>, NoData, "")

InitApi ==
  /\ original = <<>> /\ edited = <<>> /\ variant \in Variants
  /\ words1 = <<>> /\ words2 = <<>> /\ i = 0 /\ j = 0
  /\ html = <<>> /\ changes = 0 /\ pc = "idle" /\ iter = 0
  /\ verdicts = {}
  /\ SurfaceIdle
  /\ docs = InitialDocs
  /\ dom = <<>>
  /\ impl = "page"
  /\ diffLib = TRUE
  /\ modelOrder = <<>> /\ attempted = <<>> /\ variationsResult = <<>>
  /\ usedModel = "" /\ response = <<>>
  /\ apiPc = "validate"
  /\ JobsIdle
  /\ body \in [input : ApiTexts, model : Allowed \cup {"other"},
                chunkIndex : {-1, 0}, key : BOOLEAN]

\* POST up to the fallback loop: the input and the API key are checked and
\* the fallback order is built
ApiValidate ==
  /\ apiPc = "validate"
  /\ UNCHANGED <<original, edited, variant, words1, words2, i, j, html, changes,
                 pc, iter, body, attempted, variationsResult, usedModel, dom,
                 verdicts, surfVars, jobVars>>
  /\ IF Trim(body.input) = <<>>
     THEN /\ response' = <<ErrorResponse(400, "Input required")>>
          /\ apiPc' = "done"
          /\ modelOrder' = modelOrder
     ELSE IF ~body.key
     THEN /\ response' = <<ErrorResponse(500, "Server config error")>>
          /\ apiPc' = "done"
          /\ modelOrder' = modelOrder
     ELSE /\ modelOrder' = BuildModelOrder(body.model)
          /\ apiPc' = "models"
          /\ response' = response

\* one iteration of for (const model of modelOrder): the model answers
\* with content (trimmed, not empty) or the call throws
ApiCallModel(ok, content) ==
  /\ apiPc = "models"
  /\ UNCHANGED <<original, edited, variant, words1, words2, i, j, html, changes,
                 pc, iter, body, modelOrder, response, dom, verdicts, surfVars,
                 jobVars>>
  /\ Len(attempted) < Len(modelOrder)
  /\ LET model == modelOrder[Len(attempted) + 1]
     IN /\ attempted' = Append(attempted, model)
        /\ IF ok /\ Trim(content) # <<>>
           THEN /\ variationsResult' = <<Trim(content)>>
                /\ usedModel' = model
                /\ apiPc' = "respond"
           ELSE UNCHANGED <<variationsResult, usedModel, apiPc>>

\* the loop has ended with variationsResult === null
ApiAllFailed ==
  /\ apiPc = "models"
  /\ UNCHANGED <<original, edited, variant, words1, words2, i, j, html, changes,
                 pc, iter, body, modelOrder, attempted, variationsResult,
                 usedModel, dom, verdicts, surfVars, jobVars>>
  /\ Len(attempted) = Len(modelOrder)
  /\ response' = <<ErrorResponse(500, "All models failed")>>
  /\ apiPc' = "done"

\* the tracked changes are computed and the response is returned; a diff
\* that does not return leaves the request without a response
ApiRespond ==
  /\ apiPc = "respond"
  /\ UNCHANGED <<original, edited, variant, words1, words2, i, j, html, changes,
                 pc, iter, body, modelOrder, attempted, variationsResult,
                 usedModel, dom, verdicts, surfVars, jobVars>>
  /\ LET primary == variationsResult[1]
         data == TrackedData(variant, body.chunkIndex, body.input, primary)
     IN /\ ~data.hung
        /\ response' = <<Response(200, "", primary, data, usedModel)>>
        /\ apiPc' = "done"

NextApi ==
  \/ ApiValidate
  \/ \E ok \in BOOLEAN, content \in ApiTexts : ApiCallModel(ok, content)
  \/ ApiAllFailed
  \/ ApiRespond

SpecApi == InitApi /\ [][NextApi]_vars

\* ------------------------------------------------------------- SpecJobs
\* the job-queue variant of the edit API, part_013: POST enqueues a job and
\* starts processJob, GET reports a job
MaxJobs == 2

\* the requests: input and instruction (present or blank), the preferred
\* model (allowed or not), and whether the API key is configured
JobBodies ==
  [input : {<<"a">>, <<" ">>}, instruction : BOOLEAN,
   model : {"m2", "other"}, key : BOOLEAN]

\* what a model call resolves with: a text, or only white space
JobContents == {<<"b">>, <<" ">>}

\* jobQueue.push({ id: jobId, status: 'queued' })
NewJob(id) == [id |-> id, status |-> "queued", result |-> <<>>, error |-> <<>>]

\* processJob up to its first await: jobQueue[jobIndex].status = 'processing'
JobProcessing(job) == [job EXCEPT !.status = "processing"]

\* the result of a job: the primary text, its tracked changes and the model
JobResult(input, primary, model) ==
  LET r == generateTrackedChanges("part014", input, primary)
  IN [editedText |-> primary, trackedHtml |-> r.items, changes |-> r.changes,
      usedModel |-> model]

\* a job marked completed that is not given its result
JobCompletedNoResult(job, result) == [job EXCEPT !.status = "completed"]

\* status = 'completed' and result = {...}, in one synchronous block
JobCompleted(job, result) ==
  [job EXCEPT !.status = "completed", !.result = <<result>>]

\* the catch block of processJob: status = 'failed' and error = err.message
JobFailed(job, err) == [job EXCEPT !.status = "failed", !.error = <<err>>]

JobReply(status, err, jobId, job) ==
  [status |-> status, error |-> err, jobId |-> jobId, job |-> job]

\* jobQueue.find(j => j.id === jobId): <<>> for undefined
FindJob(queue, jobId) ==
  LET hits == {n \in 1..Len(queue) : queue[n].id = jobId}
  IN IF hits = {} THEN <<>>
     ELSE <<queue[CHOOSE n \in hits : \A m \in hits : n <= m]>>

InitJobs ==
  /\ DiffIdle
  /\ SurfaceIdle
  /\ docs = InitialDocs
  /\ dom = <<>>
  /\ impl = "page"
  /\ diffLib = TRUE

\* POST: the request is validated, a job is pushed and processJob runs up to
\* its first await; crypto.randomUUID() gives an id no other job has
JobPost(b) ==
  /\ Len(jobQueue) < MaxJobs
  /\ UNCHANGED <<original, edited, variant, words1, words2, i, j, html, changes,
                 pc, iter, body, modelOrder, attempted, variationsResult,
                 usedModel, response, apiPc, dom, verdicts, surfVars>>
  /\ IF ~b.instruction
     THEN /\ jobResponse' = <<JobReply(400, "Instruction required", 0, <<>>)>>
          /\ UNCHANGED <<jobQueue, jobRuns>>
     ELSE IF Trim(b.input) = <<>>
     THEN /\ jobResponse' = <<JobReply(400, "Input required", 0, <<>>)>>
          /\ UNCHANGED <<jobQueue, jobRuns>>
     ELSE IF ~b.key
     THEN /\ jobResponse' = <<JobReply(500, "Server config error", 0, <<>>)>>
          /\ UNCHANGED <<jobQueue, jobRuns>>
     ELSE LET jobId == Len(jobQueue) + 1
          IN /\ jobQueue' = Append(jobQueue, JobProcessing(NewJob(jobId)))
             /\ jobRuns' = Append(jobRuns,
                                  [input |-> b.input,
                                   modelOrder |-> BuildModelOrder(b.model),
                                   attempted |-> <<>>])
             /\ jobResponse' = <<JobReply(200, "", jobId, <<>>)>>

\* processJob resumes: the awaited call of the next model has resolved with
\* content or has thrown; after the last model has failed the job fails
JobModelReturns(n, ok, content) ==
  /\ n \in 1..Len(jobQueue)
  /\ UNCHANGED <<original, edited, variant, words1, words2, i, j, html, changes,
                 pc, iter, body, modelOrder, attempted, variationsResult,
                 usedModel, response, apiPc, dom, verdicts, surfVars,
                 jobResponse>>
  /\ jobQueue[n].status = "processing"
  /\ Len(jobRuns[n].attempted) < Len(jobRuns[n].modelOrder)
  /\ LET run == jobRuns[n]
         model == run.modelOrder[Len(run.attempted) + 1]
         tried == Append(run.attempted, model)
     IN /\ jobRuns' = [jobRuns EXCEPT ![n].attempted = tried]
        /\ jobQueue' =
             [jobQueue EXCEPT ![n] =
                IF ok /\ Trim(content) # <<>>
                THEN JobCompleted(@, JobResult(run.input, Trim(content), model))
                ELSE IF Len(tried) = Len(run.modelOrder)
                THEN JobFailed(@, "All models failed")
                ELSE @]

\* GET: 400 without a jobId (0), 404 for an unknown one, else the job
JobGet(jobId) ==
  /\ UNCHANGED <<original, edited, variant, words1, words2, i, j, html, changes,
                 pc, iter, body, modelOrder, attempted, variationsResult,
                 usedModel, response, apiPc, dom, verdicts, surfVars,
                 jobQueue, jobRuns>>
  /\ jobResponse' =
       IF jobId = 0
       THEN <<JobReply(400, "jobId parameter is required", 0, <<>>)>>
       ELSE IF FindJob(jobQueue, jobId) = <<>>
       THEN <<JobReply(404, "Job not found", 0, <<>>)>>
       ELSE <<JobReply(200, "", jobId, FindJob(jobQueue, jobId))>>

NextJobs ==
  \/ \E b \in JobBodies : JobPost(b)
  \/ \E n \in 1..MaxJobs, ok \in BOOLEAN, content \in JobContents :
       JobModelReturns(n, ok, content)
  \/ \E jobId \in 0..(MaxJobs + 1) : JobGet(jobId)

SpecJobs == InitJobs /\ [][NextJobs]_vars

\* ================================================================ claims
\* the surface shows a document of the initial list, no save has changed it
LoadedFromInitial == currentDoc # 0 /\ docs = InitialDocs

\* C1: right after the tracked document for (A, B) was built and rendered,
\* before any accept, reject or raw edit, the clean text extracted from it
\* equals B exactly.
C1_RoundTrip ==
  (impl = "page" /\ lastOp = "timeout" /\ LoadedFromInitial)
    => editedText = docs[currentDoc].edited_text

\* C2: generateTrackedChanges(original, edited) terminates after finitely
\* many loop steps for every pair of texts: the loop is eventually left.
C2_Terminates == <>(pc = "review")

\* C3: a worker response that is rendered was computed for the document that
\* is loaded now, never for a document loaded before it.
C3_NoStaleRender ==
  [][\A threw \in BOOLEAN :
       (WorkerReply(threw) /\ lastOp' = "reply")
         => Head(workerQueue).original = inputText]_vars

\* C4: when the persistence call of saveProgress fails or is refused, the
\* unsaved-changes flag and the baseline snapshot stay as they were.
C4_FailedSaveKeepsFlag ==
  [][SaveReturn(FALSE)
       => /\ unsavedChanges' = unsavedChanges
          /\ originalTrackedHtmlRef' = originalTrackedHtmlRef]_vars

\* what acceptChange / rejectChange of the group at cell n has to leave: the
\* group replaced in place by its inserted (deleted) text as plain text
AppliedAsText(cells, n, accept) ==
  SubSeq(cells, 1, n - 1)
    \o TextCells(KidsText(cells[n].kids, {IF accept THEN "ins" ELSE "del"}))
    \o SubSeq(cells, n + 1, Len(cells))

\* C5: accepting (rejecting) the change group g replaces g, in place, by its
\* insertedText (deletedText) as plain text; every plain-text run and every
\* other change group is left unchanged.
C5_AppliedInPlace ==
  [][/\ \A n \in Positions, accept \in BOOLEAN :
          PageAcceptReject(n, accept) => dom' = AppliedAsText(dom, n, accept)
     /\ (WorkerApplyFrame /\ pendingChange[1].live)
          => dom' = AppliedAsText(dom, pendingChange[1].n,
                                  pendingChange[1].accept)]_vars

\* C6: for the tracked document built from (A, B), rejecting every change
\* group leaves a surface whose text is exactly A and accepting every change
\* group leaves a surface whose text is exactly B.
C6_AllRejectedAllAccepted ==
  (pc = "review" /\ GroupIdx(dom) = {})
    => /\ verdicts = {FALSE} => TextContent(dom) = original
       /\ verdicts = {TRUE} => TextContent(dom) = edited

\* the clean text of a tracked document: every plain-text run verbatim and
\* the inserted side of every change group, in document order
CleanOf(cells) ==
  Flatten([n \in 1..Len(cells) |->
             IF cells[n].k = "c" THEN <<cells[n].ch>>
             ELSE IF cells[n].k = "g" THEN KidsText(cells[n].kids, {"ins", "t"})
             ELSE <<>>])

\* C7: the extracted clean text is the concatenation of the plain-text runs
\* and of the insertedText of every pending change group, without the
\* deletedText of any group, for groups of the diff and of raw edits alike.
C7_CleanText ==
  (lastOp \in {"timeout", "accept", "reject", "insert", "delete"}
     /\ (impl = "worker" => lastOp # "timeout"))
    => editedText = CleanOf(dom)

KeyTarget(cells, p, q, isForward) ==
  IF p < q THEN <<p, q>>
  ELSE IF isForward
       THEN (IF p < Len(cells) /\ cells[p + 1].k = "c" THEN <<p, p + 1>> ELSE <<>>)
       ELSE (IF p > 0 /\ cells[p].k = "c" THEN <<p - 1, p>> ELSE <<>>)

\* C9: for every Backspace or Delete key press in Loaded state, with a
\* collapsed caret or a selection, the text it removes stays on the surface,
\* wrapped in a new change group with deletedText = the removed text and no
\* insertedText.
C9_DeletedTextTracked ==
  [][\A p \in Positions, q \in Positions, isForward \in BOOLEAN :
       (/\ handleDeletion(p, q, isForward)
        /\ ~isApplyingChangeRef
        /\ KeyTarget(dom, p, q, isForward) # <<>>)
         => LET r == KeyTarget(dom, p, q, isForward)
            IN /\ r[1] + 1 <= Len(dom')
               /\ dom'[r[1] + 1].k = "g"
               /\ dom'[r[1] + 1].kids =
                    <<Kid("del", RangeText(RemoveActions(dom), r[1], r[2]))>>]_vars

\* the original side of a tracked document: every plain-text run and the
\* deleted side of every change group, in document order
OriginalSide(cells) ==
  Flatten([n \in 1..Len(cells) |->
             IF cells[n].k = "c" THEN <<cells[n].ch>>
             ELSE IF cells[n].k = "g" THEN KidsText(cells[n].kids, {"del", "t"})
             ELSE <<>>])

\* C10: a raw insertion or a raw deletion leaves the original side of the
\* tracked document (plain-text runs and deleted sides) as it was, so after
\* any sequence of them it is still the original side the document had at
\* load.
C10_OriginalSideKept ==
  [][(lastOp' \in {"insert", "delete"} /\ edits' = edits + 1)
       => OriginalSide(dom') = OriginalSide(dom)]_vars

\* a serialized tracked document: plain text and change groups, each group
\* with at most one deleted and at most one inserted span
ValidMarkup(h) ==
  \A n \in 1..Len(h.cells) :
    \/ h.cells[n].k = "c"
    \/ /\ h.cells[n].k = "g"
       /\ \A m \in 1..Len(h.cells[n].kids) : h.cells[n].kids[m].tag \in {"del", "ins"}
       /\ \A m1, m2 \in 1..Len(h.cells[n].kids) :
            h.cells[n].kids[m1].tag = h.cells[n].kids[m2].tag => m1 = m2

\* C11: when loadDocument is called for a document that has saved tracked
\* markup, no diff is dispatched to the worker, and once the deferred
\* callback of the load has run the surface holds exactly that markup (the
\* accept/reject controls, which the callback re-attaches, left aside).
C11_SavedMarkupRendered ==
  [][/\ \A d \in 1..NumDocs :
          (WorkerLoadDocument(d) /\ docs[d].tracked_html # EmptyHtml)
            => workerQueue' = workerQueue
     /\ (/\ lastOp = "load"
         /\ docs[currentDoc].tracked_html # EmptyHtml
         /\ ValidMarkup(docs[currentDoc].tracked_html)
         /\ lastOp' = "timeout")
          => RemoveActions(dom') = RemoveActions(ParseHtml(docs[currentDoc].tracked_html))]_vars

\* the operations that are not the user's: loading, the deferred callback
\* of a load, a worker response that is rendered or discarded
NonUserOps == {"load", "timeout", "reply", "stale"}

\* C12: loadDocument leaves the unsaved-changes flag false, and while nothing
\* but the deferred callback of the load and worker responses has run since,
\* the flag stays false.
C12_FlagFalseAfterLoad ==
  [][/\ lastOp' = "load" => ~unsavedChanges'
     /\ (/\ lastOp \in NonUserOps
         /\ lastOp' \in NonUserOps \ {"load"}
         /\ ~unsavedChanges)
          => ~unsavedChanges']_vars

\* the surfaces, controls aside, that are derived from the document doc
\* alone: its saved markup or a diff of its two texts, or nothing yet
\* (empty, or the loading spinner) while the diff is awaited
SurfacesOf(doc) ==
  {<<>>, <<SpinnerCell>>}
    \cup {RemoveActions(ParseHtml(h)) :
            h \in {doc.tracked_html,
                   generateDiffHtml(doc.original_text, doc.edited_text)}
                  \cup {generateDiffHtmlDirect(doc.original_text, doc.edited_text, lib) :
                          lib \in BOOLEAN}
                  \cup {WorkerHtml(doc.original_text, doc.edited_text, threw) :
                          threw \in BOOLEAN}}

\* C13: when the deferred callback of loadDocument(B) has run, the surface
\* content is derived from B alone; markup of the document displayed before
\* is not written into the surface.
C13_RebuiltFromScratch ==
  [][(lastOp = "load" /\ lastOp' = "timeout")
       => RemoveActions(dom') \in SurfacesOf(docs[currentDoc])]_vars

\* the surface that shows the fallback result for the edited text b: the
\* whole text as one plain run, no change group
FallbackSurface(b) == ParseHtml(FallbackHtml(b))

\* the load of document d takes the synchronous diff path of part_012
SyncPath(d) ==
  /\ docs[d].tracked_html = EmptyHtml
  /\ Len(docs[d].original_text) + Len(docs[d].edited_text) <= VIRTUALIZATION_THRESHOLD

\* C14: when the diff computation fails, on the worker or on the synchronous
\* path, the result is the entire edited text as one plain run, and the
\* surface leaves the loading state showing it.
C14_FallbackShown ==
  [][/\ (WorkerReply(TRUE) /\ lastOp' = "reply")
          => /\ dom' = FallbackSurface(Head(workerQueue).edited)
             /\ ~isLoadingContent'
     /\ (/\ lastOp = "load" /\ impl = "worker" /\ ~diffLib
         /\ SyncPath(currentDoc)
         /\ lastOp' = "timeout")
          => /\ dom' = FallbackSurface(docs[currentDoc].edited_text)
             /\ ~isLoadingContent']_vars

\* the surface that renders the worker's diff of the document doc
ShowsDiffOf(cells, doc) ==
  \E threw \in BOOLEAN :
    cells = AttachAcceptRejectHandlers(
              ParseHtml(WorkerHtml(doc.original_text, doc.edited_text, threw)))

\* C15: every worker dispatch carries an id greater than the ids issued
\* before; a response whose id is not the one issued last is discarded, it
\* leaves the surface as it is; the response of the latest dispatch is
\* rendered when it arrives, so that of two dispatches in flight the second
\* one ends up rendered.
C15_LatestDispatchWins ==
  [][/\ (workerQueue' # workerQueue /\ lastOp' = "load")
          => /\ workerQueue'[Len(workerQueue')].requestId = requestIdRef'
             /\ \A n \in 1..Len(workerQueue) :
                  workerQueue[n].requestId < requestIdRef'
             /\ requestIdRef < requestIdRef'
     /\ (workerQueue # <<>> /\ workerQueue' = Tail(workerQueue))
          => IF Head(workerQueue).requestId = requestIdRef
             THEN /\ lastOp' = "reply"
                  /\ ShowsDiffOf(dom', docs[currentDoc])
                  /\ ~isLoadingContent'
             ELSE UNCHANGED <<dom, trackedHtmlState, isLoadingContent>>]_vars

\* two dispatches were in flight and the response of the first was discarded
C15_Witness ==
  /\ lastOp = "stale"
  /\ requestIdRef = 2
  /\ Len(workerQueue) = 1
  /\ workerQueue[1].requestId = 2


\* C16: an accept, reject, raw insertion or raw deletion invoked while a
\* programmatic mutation is in progress (after applyChange has started and
\* before its deferred completion) is dropped: the step leaves the tracked
\* document and the clean text as they were.
C16_DroppedWhileMutating ==
  [][(/\ isApplyingChangeRef
      /\ \/ \E n \in Positions, accept \in BOOLEAN : WorkerAcceptReject(n, accept)
         \/ \E text \in TypedTexts, p \in Positions, q \in Positions :
              insertTrackedInsertion(text, p, q)
         \/ \E p \in Positions, q \in Positions, isForward \in BOOLEAN :
              handleDeletion(p, q, isForward))
       => UNCHANGED <<dom, editedText>>]_vars


\* the length of a longest common subsequence of x[a..] and y[b..]
RECURSIVE LongestCommon(_, _, _, _)
LongestCommon(x, y, a, b) ==
  IF a > Len(x) \/ b > Len(y) THEN 0
  ELSE IF x[a] = y[b] THEN 1 + LongestCommon(x, y, a + 1, b + 1)
  ELSE LET d == LongestCommon(x, y, a + 1, b)
           r == LongestCommon(x, y, a, b + 1)
       IN IF d >= r THEN d ELSE r

\* the words generateTrackedChanges has pushed as plain text
EqualWords(items) == Len(SelectSeq(items, LAMBDA it : it.k = "w"))

\* C17: the diff keeps a longest common subsequence of the two word sequences
\* as unchanged text: when generateTrackedChanges has returned, the number of
\* words it emitted as plain text is the LCS length of words1 and words2, and
\* for "I kno whom I am" / "I know who I am" it has emitted exactly the two
\* change groups kno/know and whom/who.
C17_ScriptIsMinimal ==
  pc = "review" =>
    /\ EqualWords(html) = LongestCommon(words1, words2, 1, 1)
    /\ (original = ExampleOriginal /\ edited = ExampleEdited)
         => /\ changes = 2
            /\ SelectSeq(html, LAMBDA it : it.k = "g")
                 = <<GroupItem(<<"a", "a">>, <<"a", "b">>),
                     GroupItem(<<"b", "a">>, <<"b", "b">>)>>


\* two change groups with nothing between them
AdjacentGroups(cells) ==
  \E n \in 1..(Len(cells) - 1) : IsGroup(cells[n]) /\ IsGroup(cells[n + 1])

\* C18: the formatter bundles every maximal run of consecutive removed and
\* added parts into exactly one change group, so two change groups of a
\* freshly formatted diff are always separated by plain text: a step that
\* renders the formatted diff of the loaded document leaves no two change
\* groups next to each other on the surface.
C18_OneGroupPerRun ==
  [][((impl = "page" /\ lastOp = "load" /\ lastOp' = "timeout") \/ lastOp' = "reply")
       => ~AdjacentGroups(dom')]_vars


\* the surfaces a diff recomputed from the two texts of doc can give
RecomputedSurfaces(doc) ==
  {RemoveActions(ParseHtml(h)) :
     h \in {generateDiffHtml(doc.original_text, doc.edited_text)}
           \cup {generateDiffHtmlDirect(doc.original_text, doc.edited_text, lib) :
                   lib \in BOOLEAN}
           \cup {WorkerHtml(doc.original_text, doc.edited_text, threw) :
                   threw \in BOOLEAN}}

\* C19: when the stored tracked_html handed to loadDocument is not a valid
\* serialized tracked document, the surface does not render it: once the
\* load has settled, the surface shows the diff recomputed from
\* original_text and edited_text.
C19_MalformedMarkupFallsBack ==
  [][(/\ lastOp = "load"
      /\ lastOp' = "timeout"
      /\ docs[currentDoc].tracked_html # EmptyHtml
      /\ ~ValidMarkup(docs[currentDoc].tracked_html))
       => RemoveActions(dom') \in RecomputedSurfaces(docs[currentDoc])]_vars


\* C20: extracting the clean text has no side effect on the tracked
\* document, the unsaved-changes flag and the baseline snapshot.  The frame
\* callback of applyChange whose group has left the document, on a surface
\* without change groups, replaces nothing and attaches nothing: all it does
\* is extract the clean text, so it leaves the three unchanged.
C20_ExtractionIsPure ==
  [][(/\ pendingChange # <<>>
      /\ ~pendingChange[1].live
      /\ ~AttachMutates(dom)
      /\ WorkerApplyFrame)
       => UNCHANGED <<dom, unsavedChanges, originalTrackedHtmlRef>>]_vars


\* the characters that are markup when they stand unescaped
MarkupChars == {"&", "<", ">"}

NoRawMarkup(ts) == \A n \in 1..Len(ts) : ts[n] \notin MarkupChars

\* the words of t, and t itself
TextOrWordOf(t) == {t} \cup {Words(variant, t)[n] : n \in 1..Len(Words(variant, t))}

\* C21: every tracked markup string the edit API returns, chunk requests
\* included, carries text only in escaped form: &, < and > appear only as
\* entities, so parsing a plain run of the markup gives back the literal
\* text (the edited text or one of its words).
C21_MarkupIsEscaped ==
  \A n \in 1..Len(response) :
    response[n].status = 200 =>
      \A m \in 1..Len(response[n].trackedHtml.items) :
        LET it == response[n].trackedHtml.items[m]
        IN /\ NoRawMarkup(it.s) /\ NoRawMarkup(it.del) /\ NoRawMarkup(it.ins)
           /\ it.k = "w" => ParseMarkupText(it.s) \in TextOrWordOf(response[n].editedText)


\* the caret's plain-text-equivalent offset: the characters of the surface
\* in front of it, the controls left aside
PlainOffset(cells, c) == Len(TextContent(RemoveActions(SubSeq(cells, 1, c))))

\* C22: for every accept, reject, raw insertion and raw deletion the caret's
\* plain-text-equivalent offset is captured before the mutation and the
\* caret is put back at that offset afterwards: the offset after the step is
\* the offset the caret had when the handler was entered.
C22_CaretRestored ==
  [][/\ lastOp' \in {"accept", "reject"}
          => PlainOffset(dom', caret') = PlainOffset(dom, caret)
     /\ \A text \in TypedTexts, p \in Positions :
          (insertTrackedInsertion(text, p, p) /\ lastOp' = "insert")
            => PlainOffset(dom', caret') = PlainOffset(dom, p)
     /\ \A p \in Positions, isForward \in BOOLEAN :
          (handleDeletion(p, p, isForward) /\ lastOp' = "delete")
            => PlainOffset(dom', caret') = PlainOffset(dom, p)]_vars


\* C23: for a document without saved markup whose two texts together stay
\* within the threshold, loadDocument computes the diff synchronously and
\* posts nothing to the worker, and when it has returned the surface is
\* loaded: isLoadingContent is false and the surface shows that diff.
C23_SmallLoadsSynchronously ==
  [][\A d \in 1..NumDocs :
       (WorkerLoadDocument(d) /\ SyncPath(d))
         => /\ workerQueue' = workerQueue
            /\ ~isLoadingContent'
            /\ RemoveActions(dom')
                 = RemoveActions(ParseHtml(generateDiffHtmlDirect(
                     docs[d].original_text, docs[d].edited_text, diffLib)))]_vars


\* C24: in every reachable state of the review surface every change group
\* present has a non-empty deleted text or a non-empty inserted text; a group
\* that was accepted or rejected, which has neither left, is no longer
\* present as a change group.
C24_NoEmptyGroup ==
  \A n \in GroupIdx(dom) :
    KidsText(dom[n].kids, {"del"}) # <<>> \/ KidsText(dom[n].kids, {"ins"}) # <<>>


\* every change group carries its control pair and no control stands
\* outside a change group
ControlsAttached(cells) ==
  \A n \in 1..Len(cells) :
    /\ IsGroup(cells[n]) => cells[n].act
    /\ cells[n].k \notin {"a", "b"}

\* the operations that have run to their end: the deferred callback of a
\* load, a rendered worker response, accept, reject, raw insertion, and raw
\* deletion, the deletion handler returning with nothing to delete included
CompletedOps ==
  {"timeout", "reply", "accept", "reject", "insert", "delete", "nodelete"}

Settled ==
  /\ currentDoc # 0
  /\ timers = <<>>
  /\ workerQueue = <<>>
  /\ ~isLoadingContent
  /\ ~isApplyingChangeRef
  /\ saveOp = <<>>
  /\ ~isSaving

\* C26: whenever no save is in flight and the unsaved-changes flag is false,
\* the rendered markup equals the baseline snapshot taken at load or at the
\* last successful save; a mutation made while a save is in flight leaves
\* the flag raised after that save completes.
C26_FlagFalseMeansBaseline ==
  (Settled /\ ~unsavedChanges)
    => InnerHTML(wrapped, dom) = originalTrackedHtmlRef


\* the clean text the implementation extracts from the surface cells
Extracted(cells) == updateCleanFromTracked(impl, wrapped, cells)

\* the step changes the extracted clean text only at the group of cell n,
\* where the inserted text of the group is replaced by its deleted text
RejectedAt(n) ==
  LET pre == Extracted(SubSeq(dom, 1, n - 1))
      post == Extracted(SubSeq(dom, n + 1, Len(dom)))
  IN /\ Extracted(dom) = pre \o KidsText(dom[n].kids, {"ins"}) \o post
     /\ Extracted(dom') = pre \o KidsText(dom[n].kids, {"del"}) \o post

\* C27: accepting a change group never changes the clean text: the clean
\* text extracted right after acceptChange(g) equals the clean text extracted
\* right before it; rejectChange(g) changes the clean text only at the
\* position of g, replacing the insertedText of g by its deletedText.
C27_AcceptKeepsCleanText ==
  [][/\ \A n \in 1..Len(dom) :
          /\ PageAcceptReject(n, TRUE) => Extracted(dom') = Extracted(dom)
          /\ PageAcceptReject(n, FALSE) => RejectedAt(n)
     /\ (WorkerApplyFrame /\ lastOp' = "accept")
          => Extracted(dom') = Extracted(dom)
     /\ (WorkerApplyFrame /\ lastOp' = "reject")
          => RejectedAt(pendingChange[1].n)]_vars


\* C28: the mutation guard is always released: once applyChange has set the
\* applying-change guard, its completion step eventually runs and clears the
\* guard, also when the document is reloaded or the group is detached in
\* between; the surface never stays in the Mutating state forever.
C28_GuardReleased == isApplyingChangeRef ~> ~isApplyingChangeRef

\* the completion step has run for a group that a reload had detached, and
\* the guard is clear
C28_Witness == lastOp = "detached" /\ ~isApplyingChangeRef


\* the order the models are to be tried in: the preferred model first when
\* it is allowed, then the remaining allowed models in their listed order
ExpectedOrder(preferredModel) ==
  LET others == SelectSeq(ALLOWED_MODELS, LAMBDA m : m # preferredModel)
  IN IF preferredModel \in Allowed THEN <<preferredModel>> \o others
     ELSE ALLOWED_MODELS

AllFailedAnswered ==
  response # <<>> /\ response[1].status = 500
    /\ response[1].error = "All models failed"

\* C29: the edit API tries the models in a fixed order, the preferred model
\* first when it is in ALLOWED_MODELS and then the remaining allowed models,
\* each at most once; it stops at the first model that succeeds and reports
\* it as usedModel; it answers 500 (all models failed) only when every tried
\* model failed, and it never calls a model outside ALLOWED_MODELS.
C29_ModelFallbackOrder ==
  [][/\ Len(attempted') <= Len(ExpectedOrder(body.model))
     /\ \A n \in 1..Len(attempted') :
          /\ attempted'[n] = ExpectedOrder(body.model)[n]
          /\ attempted'[n] \in Allowed
          /\ \A m \in 1..Len(attempted') : attempted'[m] = attempted'[n] => m = n
     /\ usedModel # "" => attempted' = attempted /\ usedModel' = usedModel
     /\ usedModel' # "" => usedModel' = attempted'[Len(attempted')]
     /\ \A n \in 1..Len(response') :
          response'[n].status = 200 => /\ usedModel' # ""
                                       /\ response'[n].usedModel = usedModel'
     /\ AllFailedAnswered'
          => usedModel' = "" /\ attempted' = ExpectedOrder(body.model)]_vars

\* the preferred model m2 failed, m1 succeeded and is reported, m3 was not
\* called
C29_Witness ==
  /\ body.model = "m2"
  /\ attempted = <<"m2", "m1">>
  /\ response # <<>>
  /\ response[1].status = 200
  /\ response[1].usedModel = "m1"


JobRank(status) ==
  CASE status = "queued" -> 0
    [] status = "processing" -> 1
    [] status \in {"completed", "failed"} -> 2

\* C30: in the job-queue variant of the edit API a job's status only moves
\* forward, queued then processing then exactly one of completed or failed,
\* and never changes after completed or failed; a completed job always has a
\* result and a failed job always has an error, and GET for a known jobId
\* returns that job.
C30_JobStatusForward ==
  [][/\ Len(jobQueue') >= Len(jobQueue)
     /\ \A n \in 1..Len(jobQueue) :
          /\ jobQueue'[n].id = jobQueue[n].id
          /\ JobRank(jobQueue'[n].status) <= JobRank(jobQueue[n].status) + 1
          /\ JobRank(jobQueue'[n].status) >= JobRank(jobQueue[n].status)
          /\ JobRank(jobQueue[n].status) = 2 => jobQueue'[n] = jobQueue[n]
     /\ \A n \in 1..Len(jobQueue') :
          /\ jobQueue'[n].status \in {"queued", "processing", "completed", "failed"}
          /\ jobQueue'[n].status = "completed"
               => jobQueue'[n].result # <<>> /\ jobQueue'[n].error = <<>>
          /\ jobQueue'[n].status = "failed"
               => jobQueue'[n].error # <<>> /\ jobQueue'[n].result = <<>>
          /\ \A m \in 1..Len(jobQueue') :
               jobQueue'[m].id = jobQueue'[n].id => m = n
     /\ \A n \in 1..Len(jobQueue) :
          JobGet(jobQueue[n].id)
            => jobResponse' = <<JobReply(200, "", jobQueue[n].id, <<jobQueue[n]>>)>>]_vars

\* one job has completed, another has failed, and GET has just reported the
\* completed one with its result
C30_Witness ==
  /\ \E n \in 1..Len(jobQueue) : jobQueue[n].status = "failed"
  /\ jobResponse # <<>>
  /\ jobResponse[1].job # <<>>
  /\ jobResponse[1].job[1].status = "completed"
  /\ jobResponse[1].job[1].result # <<>>
  /\ jobResponse[1].job = FindJob(jobQueue, jobResponse[1].jobId)

=============================================================================
